---- MODULE Spec2Model ----
(***************************************************************************)
(* libsonyapi: the Camera class of src/libsonyapi/camera.py.               *)
(*                                                                         *)
(* Python strings are sequences of characters; the character "LOCATION"    *)
(* stands for that whole word, so that `"LOCATION" in item` is the         *)
(* presence of the character.  JSON / Python values are tagged records     *)
(* [t |-> type, v |-> payload].                                            *)
(***************************************************************************)
EXTENDS Integers, Sequences, FiniteSets, TLC

VARIABLES
    network_interface,   \* self._network_interface: NoIface or a device name
    platform,            \* the host: "linux" has SO_BINDTODEVICE, "other" has not
    so_bindtodevice,     \* socket.SO_BINDTODEVICE: 0 while the attribute is absent
    pc,                  \* where the constructor / the caller stands
    bindAttempted,       \* setsockopt(SO_BINDTODEVICE) was called on the socket
    sockTimeout,         \* the socket's receive timeout in seconds, 0 = none set
    sent,                \* number of M-SEARCH datagrams sent
    recv,                \* outcome of the last recvfrom: "none", "datagram", "timeout"
    data,                \* the last datagram received (decoded)
    xml_url,             \* self.xml_url
    name,                \* self.name
    api_version,         \* self.api_version
    services,            \* self.services: service type -> action URL
    camera_endpoint_url, \* self.camera_endpoint_url
    available_apis,      \* self.available_apis
    req,                 \* the POST in flight: the JSON request and the caller's param
    response,            \* the last parsed JSON response
    ret,                 \* what the last operation returned
    exc,                 \* what the last operation raised
    op,                  \* the last operation called: "init", "do", "info", "connected"
    log,                 \* the construction steps started so far, in order
    faults               \* the construction steps whose outcome was a failure

vars == << network_interface, platform, so_bindtodevice, pc, bindAttempted,
           sockTimeout, sent, recv, data, xml_url, name, api_version, services,
           camera_endpoint_url, available_apis, req, response, ret, exc, op,
           log, faults >>

fields == << name, api_version, services, camera_endpoint_url, available_apis >>

----------------------------------------------------------------------------
(* Bounds of the model *)

MaxDatagramLen == 4     \* characters in a datagram
MaxResultLen == 2       \* elements of a flat "result" / names in an API list
MaxErrorLen == 3        \* elements of an "error" list
MaxParamLen == 1        \* elements of a list passed as param
MaxServices == 2        \* entries of the descriptor's service list

(* Program constants *)

BindToDeviceOpt == 25   \* socket.SO_BINDTODEVICE when the platform lacks it
RecvTimeout == 2        \* socket_.settimeout(2)
RequestId == 1          \* "id": 1

----------------------------------------------------------------------------
(* Sequences and strings *)

SeqsUpTo(S, n) == UNION { [1..k -> S] : k \in 0..n }

Last(s) == s[Len(s)]

IsSubstring(p, s) ==
    \E i \in 0..(Len(s) - Len(p)) : SubSeq(s, i + 1, i + Len(p)) = p

Whitespace == {" ", "\n", "\r", "\t"}

RECURSIVE LStrip(_)
LStrip(s) == IF s # <<>> /\ Head(s) \in Whitespace THEN LStrip(Tail(s)) ELSE s

RECURSIVE RStrip(_)
RStrip(s) ==
    IF s # <<>> /\ Last(s) \in Whitespace
    THEN RStrip(SubSeq(s, 1, Len(s) - 1)) ELSE s

\* str.strip()
Strip(s) == RStrip(LStrip(s))

\* str.split(sep) with an explicit separator: every occurrence splits, so that
\* consecutive separators give empty strings
RECURSIVE Split(_, _)
Split(s, sep) ==
    IF s = <<>> THEN << <<>> >>
    ELSE IF Head(s) = sep THEN << <<>> >> \o Split(Tail(s), sep)
    ELSE LET r == Split(Tail(s), sep)
         IN  << <<Head(s)>> \o Head(r) >> \o Tail(r)

DigitChar == << "0", "1", "2", "3", "4", "5", "6", "7", "8", "9" >>

\* str(n) for n >= 0
RECURSIVE Digits(_)
Digits(n) ==
    IF n < 10 THEN << DigitChar[n + 1] >>
    ELSE Digits(n \div 10) \o << DigitChar[(n % 10) + 1] >>

----------------------------------------------------------------------------
(* Python / JSON values *)

PyStr(s) == [t |-> "str", v |-> s]
PyInt(n) == [t |-> "int", v |-> n]
PyList(xs) == [t |-> "list", v |-> xs]
PyTrue == [t |-> "bool", v |-> TRUE]
PyFalse == [t |-> "bool", v |-> FALSE]
PyNone == [t |-> "none", v |-> <<>>]

\* repr(x)
RECURSIVE Repr(_)
\* ", ".join(repr(e) for e in xs)
RECURSIVE JoinRepr(_)
Repr(x) ==
    CASE x.t = "str" -> <<"'">> \o x.v \o <<"'">>
      [] x.t = "int" -> Digits(x.v)
      [] x.t = "bool" -> IF x.v THEN <<"True">> ELSE <<"False">>
      [] x.t = "none" -> <<"None">>
      [] x.t = "list" -> <<"[">> \o JoinRepr(x.v) \o <<"]">>
JoinRepr(xs) ==
    IF xs = <<>> THEN <<>>
    ELSE IF Len(xs) = 1 THEN Repr(xs[1])
    ELSE Repr(xs[1]) \o <<", ">> \o JoinRepr(Tail(xs))

\* "{}".format(x), that is str(x): a string is shown bare, anything else as repr
Format(x) == IF x.t = "str" THEN x.v ELSE Repr(x)

\* `x in c` -- membership in a list, substring in a string, TypeError otherwise
PyIn(x, c) ==
    CASE c.t = "list" -> IF \E i \in 1..Len(c.v) : c.v[i] = x THEN "true" ELSE "false"
      [] c.t = "str"  -> IF x.t = "str" /\ IsSubstring(x.v, c.v) THEN "true" ELSE "false"
      [] OTHER        -> "TypeError"

NoExc == [kind |-> "None", msg |-> <<>>]
Raise(kind, msg) == [kind |-> kind, msg |-> msg]

----------------------------------------------------------------------------
(* Discovery: the SSDP datagrams *)

LOCATION == "LOCATION"
Chars == {LOCATION, " ", "\n", "u"}
Datagrams == SeqsUpTo(Chars, MaxDatagramLen)

NoUrl == <<"<None>">>
NoIface == "None"
Interfaces == {NoIface, "eth0"}

\* `"LOCATION" in item`
HasLocation(item) == \E i \in 1..Len(item) : item[i] = LOCATION

\* lines 60-62: the first line holding LOCATION decides; its second piece of
\* split(" ") is returned, and a line with a single piece raises IndexError
RECURSIVE ScanItems(_)
ScanItems(items) ==
    IF items = <<>> THEN [kind |-> "none", url |-> NoUrl]
    ELSE IF HasLocation(Head(items))
         THEN LET pieces == Split(Strip(Head(items)), " ")
              IN  IF Len(pieces) >= 2
                  THEN [kind |-> "url", url |-> pieces[2]]
                  ELSE [kind |-> "IndexError", url |-> NoUrl]
         ELSE ScanItems(Tail(items))

ParseDatagram(d) == ScanItems(Split(d, "\n"))

----------------------------------------------------------------------------
(* The constructor, Camera.__init__ *)

AllSteps == << "discover", "connect", "derive", "getAvailableApiList", "startRecMode" >>

NoReq == [method |-> <<>>, params |-> PyNone, id |-> 0, version |-> "", param |-> PyNone]
NoResponse == [none |-> TRUE]

Init ==
    /\ network_interface \in Interfaces
    /\ platform \in {"linux", "other"}
    /\ so_bindtodevice = IF platform = "linux" THEN BindToDeviceOpt ELSE 0
    /\ pc = "discover"
    /\ bindAttempted = FALSE
    /\ sockTimeout = 0
    /\ sent = 0
    /\ recv = "none"
    /\ data = <<>>
    /\ xml_url = NoUrl
    /\ name = "None"
    /\ api_version = "None"
    /\ services = <<>>
    /\ camera_endpoint_url = NoUrl
    /\ available_apis = PyNone
    /\ req = NoReq
    /\ response = NoResponse
    /\ ret = PyNone
    /\ exc = NoExc
    /\ op = "init"
    /\ log = <<>>
    /\ faults = {}

\* an exception leaves __init__: nothing is caught there
Fail(step, kind, msg) ==
    /\ pc' = "failed"
    /\ exc' = Raise(kind, msg)
    /\ faults' = faults \cup {step}

\* lines 41-51: the socket is created and, when an interface is given, bound.
\* setsockopt is called whatever the platform; where the option is unknown or
\* the caller may not use it, it raises OSError.
DiscoverSetup ==
    /\ pc = "discover"
    /\ log' = Append(log, "discover")
    /\ so_bindtodevice' = IF so_bindtodevice = 0 THEN BindToDeviceOpt ELSE so_bindtodevice
    /\ IF network_interface # NoIface
       THEN /\ bindAttempted' = TRUE
            /\ \E outcome \in {"ok", "OSError"} :
                 IF outcome = "ok"
                 THEN pc' = "send" /\ UNCHANGED << exc, faults >>
                 ELSE Fail("discover", "OSError", <<"setsockopt">>)
       ELSE /\ bindAttempted' = FALSE
            /\ pc' = "send"
            /\ UNCHANGED << exc, faults >>
    /\ UNCHANGED << op, network_interface, platform, sockTimeout, sent, recv, data,
                    xml_url, fields, req, response, ret >>

\* lines 52-53
DiscoverSend ==
    /\ pc = "send"
    /\ sockTimeout' = RecvTimeout
    /\ \E outcome \in {"ok", "OSError"} :
         IF outcome = "ok"
         THEN sent' = sent + 1 /\ pc' = "recv" /\ UNCHANGED << exc, faults >>
         ELSE sent' = sent /\ Fail("discover", "OSError", <<"sendto">>)
    /\ UNCHANGED << op, network_interface, platform, so_bindtodevice, bindAttempted,
                    recv, data, xml_url, fields, req, response, ret, log >>

\* what a received datagram leads to (lines 57-62)
AfterDatagram(d) ==
    LET r == ParseDatagram(d)
    IN  CASE r.kind = "url" -> [pc |-> "connect", url |-> r.url, exc |-> NoExc]
          [] r.kind = "IndexError" ->
               [pc |-> "failed", url |-> NoUrl,
                exc |-> Raise("IndexError", <<"list index out of range">>)]
          [] OTHER -> [pc |-> "recv", url |-> NoUrl, exc |-> NoExc]

\* lines 56-62: one pass of the loop
DiscoverRecv ==
    /\ pc = "recv"
    /\ \E d \in Datagrams :
         LET a == AfterDatagram(d)
         IN  /\ data' = d
             /\ recv' = "datagram"
             /\ pc' = a.pc
             /\ xml_url' = a.url
             /\ exc' = a.exc
             /\ faults' = IF a.pc = "failed" THEN faults \cup {"discover"} ELSE faults
    /\ UNCHANGED << op, network_interface, platform, so_bindtodevice, bindAttempted,
                    sockTimeout, sent, fields, req, response, ret, log >>

\* the handler missing: socket.timeout leaves discover as it is
AfterTimeoutUncaught ==
    [pc |-> "failed", exc |-> Raise("timeout", <<"timed out">>)]

\* what a receive timeout leads to (lines 64-65)
AfterTimeout ==
    [pc |-> "failed",
     exc |-> Raise("ConnectionError", <<"You are not connected to the camera's wifi.">>)]

\* recvfrom times out: only a socket with a timeout does
DiscoverTimeout ==
    /\ pc = "recv"
    /\ sockTimeout > 0
    /\ recv' = "timeout"
    /\ pc' = AfterTimeout.pc
    /\ exc' = AfterTimeout.exc
    /\ faults' = faults \cup {"discover"}
    /\ UNCHANGED << op, network_interface, platform, so_bindtodevice, bindAttempted,
                    sockTimeout, sent, data, xml_url, fields, req, response, ret,
                    log >>

DiscoverNext == DiscoverSetup \/ DiscoverSend \/ DiscoverRecv \/ DiscoverTimeout

----------------------------------------------------------------------------
(* The device descriptor *)

NoNode == "<absent>"
Url1 == <<"http://192.168.122.1:8080/sony">>
Url2 == <<"http://192.168.122.1:8080/sony2">>
ServiceEntries ==
    { [type |-> "camera", url |-> Url1],
      [type |-> "camera", url |-> Url2],
      [type |-> "guide", url |-> Url1] }
ServiceLists == SeqsUpTo(ServiceEntries, MaxServices)

\* the XML documents a GET of xml_url may answer with; a node may be absent
XmlDocs ==
    { [friendlyName |-> n, version |-> v, hasList |-> TRUE, serviceList |-> l] :
        n \in {"Cam1", NoNode}, v \in {"1.0", NoNode}, l \in ServiceLists }
    \cup
    { [friendlyName |-> "Cam1", version |-> "1.0", hasList |-> FALSE,
       serviceList |-> <<>>] }

\* lines 83-91: a later entry of the same type replaces an earlier one
RECURSIVE ServiceUrls(_)
ServiceUrls(l) ==
    IF l = <<>> THEN <<>>
    ELSE LET e == Last(l)
             m == ServiceUrls(SubSeq(l, 1, Len(l) - 1))
         IN  [k \in (DOMAIN m) \cup {e.type} |-> IF k = e.type THEN e.url ELSE m[k]]

\* lines 71-93: None.text raises AttributeError, iterating None TypeError
ConnectResult(xml) ==
    IF xml.friendlyName = NoNode \/ xml.version = NoNode
    THEN [ok |-> FALSE, kind |-> "AttributeError"]
    ELSE IF ~xml.hasList
    THEN [ok |-> FALSE, kind |-> "TypeError"]
    ELSE [ok |-> TRUE, kind |-> "None"]

\* line 14 with Camera.connect, given the GET's answer
Connect ==
    /\ pc = "connect"
    /\ log' = Append(log, "connect")
    /\ \/ \E xml \in XmlDocs :
            LET r == ConnectResult(xml)
            IN  IF r.ok
                THEN /\ name' = xml.friendlyName
                     /\ api_version' = xml.version
                     /\ services' = ServiceUrls(xml.serviceList)
                     /\ pc' = "derive"
                     /\ UNCHANGED << exc, faults >>
                ELSE /\ Fail("connect", r.kind, <<>>)
                     /\ UNCHANGED << name, api_version, services >>
       \/ /\ Fail("connect", "ConnectionError", <<"GET">>)
          /\ UNCHANGED << name, api_version, services >>
    /\ data' = <<>>   \* discover's locals are gone
    /\ UNCHANGED << op, network_interface, platform, so_bindtodevice, bindAttempted,
                    sockTimeout, sent, recv, xml_url, camera_endpoint_url,
                    available_apis, req, response, ret >>

\* self.services["camera"] + "/camera"
EndpointOf(svc) == svc["camera"] \o <<"/camera">>

\* line 15
Derive ==
    /\ pc = "derive"
    /\ log' = Append(log, "derive")
    /\ IF "camera" \in DOMAIN services
       THEN /\ camera_endpoint_url' = EndpointOf(services)
            /\ pc' = "get_apis"
            /\ UNCHANGED << exc, faults >>
       ELSE /\ Fail("derive", "KeyError", <<"camera">>)
            /\ UNCHANGED camera_endpoint_url
    /\ UNCHANGED << op, network_interface, platform, so_bindtodevice, bindAttempted,
                    sockTimeout, sent, recv, data, xml_url, name, api_version,
                    services, available_apis, req, response, ret >>

----------------------------------------------------------------------------
(* The command dispatcher: Camera._post_request and Camera.do *)

StartRecMode == <<"startRecMode">>
GetAvailableApiList == <<"getAvailableApiList">>
ApiNames == { StartRecMode, <<"stopRecMode">> }
ApiStrs == { PyStr(n) : n \in ApiNames }

\* "result": a flat sequence of strings, or one list of API names
Results ==
    SeqsUpTo(ApiStrs, MaxResultLen)
    \cup { << PyList(l) >> : l \in SeqsUpTo(ApiStrs, MaxResultLen) }

ErrorCodes == {1, 3, 12, 403, 500, 40403, 2}
Messages == { <<"bad">>, <<"value">> }
\* "error": [code, ..., message]
Errors ==
    { << PyInt(c) >> \o mid \o << PyStr(m) >> :
        c \in ErrorCodes,
        mid \in SeqsUpTo({ PyStr(x) : x \in Messages }, MaxErrorLen - 2),
        m \in Messages }

Responses ==
    { [id |-> RequestId, error |-> e] : e \in Errors }
    \cup { [id |-> RequestId, result |-> r] : r \in Results }
    \cup { [id |-> RequestId] }
    \cup { [id |-> RequestId, error |-> << PyInt(12), PyStr(<<"bad">>) >>,
            result |-> << PyStr(StartRecMode) >>] }

ParamAtoms == { PyStr(<<"iso">>), PyInt(99999) }
Params == ParamAtoms \cup { PyList(l) : l \in SeqsUpTo(ParamAtoms, MaxParamLen) }
DefaultParam == PyList(<<>>)

\* lines 119-122: the request that is posted
PostRequest(method, param) ==
    [method |-> method,
     params |-> IF param.t # "list" THEN PyList(<<param>>) ELSE param,
     id |-> RequestId,
     version |-> "1.0",
     param |-> param]

\* two branches of the chain raising the same class
ErrorKindSwapped(code) ==
    CASE code = 1 -> "NotAvailableError"
      [] code = 3 -> "IllegalArgumentError"
      [] code = 12 -> "InvalidActionError"
      [] code = 403 -> "OperationFailedError"
      [] code = 500 -> "OperationFailedError"
      [] code = 40403 -> "LongShootingError"
      [] OTHER -> "ValueError"

\* lines 136-155: the exception class
ErrorKind(code) ==
    CASE code = 1 -> "NotAvailableError"
      [] code = 3 -> "IllegalArgumentError"
      [] code = 12 -> "InvalidActionError"
      [] code = 403 -> "ForbiddenError"
      [] code = 500 -> "OperationFailedError"
      [] code = 40403 -> "LongShootingError"
      [] OTHER -> "ValueError"

\* lines 136-155: the exception's text
ErrorText(code, message, param) ==
    CASE code = 3 -> message \o <<": ">> \o Format(param)
      [] code = 12 -> <<"Invalid action: ">> \o message
      [] code \in {1, 403, 500, 40403} -> message
      [] OTHER -> <<"Error ">> \o Digits(code) \o <<": ">> \o message

\* the second test written `>= 1`: a longer result loses its tail
NormalizeFirstOnly(result) ==
    IF Len(result) = 0 THEN PyTrue ELSE result[1]

\* lines 158-166
Normalize(result) ==
    IF Len(result) = 0 THEN PyTrue
    ELSE IF Len(result) = 1 THEN result[1]
    ELSE PyList(result)

\* lines 131-166: what do() makes of a parsed response
DoOutcome(param, resp) ==
    IF "error" \in DOMAIN resp
    THEN LET error == resp.error
             error_code == error[1].v
             error_message == Last(error).v
         IN  [raised |-> TRUE,
              exc |-> Raise(ErrorKind(error_code),
                            ErrorText(error_code, error_message, param)),
              value |-> PyNone]
    ELSE LET result == IF "result" \in DOMAIN resp THEN resp.result ELSE <<>>
         IN  [raised |-> FALSE, exc |-> NoExc, value |-> Normalize(result)]

----------------------------------------------------------------------------
(* The constructor, continued: lines 16-20 *)

\* line 16: do("getAvailableApiList") posts its request
InitGetApis ==
    /\ pc = "get_apis"
    /\ log' = Append(log, "getAvailableApiList")
    /\ req' = PostRequest(GetAvailableApiList, DefaultParam)
    /\ pc' = "apis_wait"
    /\ UNCHANGED << op, network_interface, platform, so_bindtodevice, bindAttempted,
                    sockTimeout, sent, recv, data, xml_url, fields, response, ret,
                    exc, faults >>

\* line 16: the answer arrives; what do() returns is cached
InitApisReply ==
    /\ pc = "apis_wait"
    /\ \E resp \in Responses :
         LET out == DoOutcome(req.param, resp)
         IN  /\ response' = resp
             /\ IF out.raised
                THEN /\ Fail("getAvailableApiList", out.exc.kind, out.exc.msg)
                     /\ UNCHANGED available_apis
                ELSE /\ available_apis' = out.value
                     /\ pc' = "rec_mode"
                     /\ UNCHANGED << exc, faults >>
    /\ UNCHANGED << op, network_interface, platform, so_bindtodevice, bindAttempted,
                    sockTimeout, sent, recv, data, xml_url, name, api_version,
                    services, camera_endpoint_url, req, ret, log >>

\* requests.post or json.loads raises: no answer, or one that is not JSON
PostFails(at, step) ==
    /\ pc = at
    /\ \E kind \in {"ConnectionError", "JSONDecodeError"} : Fail(step, kind, <<"POST">>)
    /\ UNCHANGED << op, network_interface, platform, so_bindtodevice, bindAttempted,
                    sockTimeout, sent, recv, data, xml_url, fields, req, response,
                    ret, log >>

InitApisFails == PostFails("apis_wait", "getAvailableApiList")

\* startRecMode sent without looking at the cached list
InitRecModeAlways ==
    /\ pc = "rec_mode"
    /\ log' = Append(log, "startRecMode")
    /\ req' = PostRequest(StartRecMode, DefaultParam)
    /\ pc' = "rec_wait"
    /\ UNCHANGED << op, network_interface, platform, so_bindtodevice, bindAttempted,
                    sockTimeout, sent, recv, data, xml_url, fields, response, ret,
                    exc, faults >>

\* lines 19-20: the membership test, and the request of do("startRecMode")
InitRecMode ==
    /\ pc = "rec_mode"
    /\ LET test == PyIn(PyStr(StartRecMode), available_apis)
       IN  CASE test = "true" ->
                  /\ log' = Append(log, "startRecMode")
                  /\ req' = PostRequest(StartRecMode, DefaultParam)
                  /\ pc' = "rec_wait"
                  /\ UNCHANGED << response, exc, faults >>
             [] test = "false" ->
                  /\ pc' = "ready"
                  /\ req' = NoReq
                  /\ response' = NoResponse
                  /\ UNCHANGED << log, exc, faults >>
             [] OTHER ->
                  /\ Fail("startRecMode", "TypeError", <<"not iterable">>)
                  /\ UNCHANGED << log, req, response >>
    /\ UNCHANGED << op, network_interface, platform, so_bindtodevice, bindAttempted,
                    sockTimeout, sent, recv, data, xml_url, fields, ret >>

\* the mode switch made best-effort: its error is caught and dropped
InitRecReplySwallow ==
    /\ pc = "rec_wait"
    /\ \E resp \in Responses :
         LET out == DoOutcome(req.param, resp)
         IN  faults' = IF out.raised THEN faults \cup {"startRecMode"} ELSE faults
    /\ pc' = "ready"
    /\ req' = NoReq
    /\ response' = NoResponse
    /\ UNCHANGED << op, network_interface, platform, so_bindtodevice, bindAttempted,
                    sockTimeout, sent, recv, data, xml_url, fields, ret, exc, log >>

\* line 20: the answer arrives; its value is dropped
InitRecReply ==
    /\ pc = "rec_wait"
    /\ \E resp \in Responses :
         LET out == DoOutcome(req.param, resp)
         IN  IF out.raised
             THEN /\ Fail("startRecMode", out.exc.kind, out.exc.msg)
                  /\ response' = resp
                  /\ UNCHANGED req
             ELSE /\ pc' = "ready"
                  /\ req' = NoReq
                  /\ response' = NoResponse
                  /\ UNCHANGED << exc, faults >>
    /\ UNCHANGED << op, network_interface, platform, so_bindtodevice, bindAttempted,
                    sockTimeout, sent, recv, data, xml_url, fields, ret, log >>

InitRecFails == PostFails("rec_wait", "startRecMode")

ConstructNext ==
    \/ DiscoverNext
    \/ Connect
    \/ Derive
    \/ InitGetApis
    \/ InitApisReply
    \/ InitApisFails
    \/ InitRecMode
    \/ InitRecReply
    \/ InitRecFails

\* the constructor alone
SpecConstruct == Init /\ [][ConstructNext]_vars

----------------------------------------------------------------------------
(* The constructed camera: do, info, connected *)

UserMethods == { <<"actTakePicture">>, GetAvailableApiList }

\* do(method, param): lines 116-122, the request is posted
UserDo ==
    /\ pc = "ready"
    /\ \E method \in UserMethods, param \in Params :
         req' = PostRequest(method, param)
    /\ op' = "do"
    /\ pc' = "do_wait"
    /\ response' = NoResponse
    /\ ret' = PyNone
    /\ exc' = NoExc
    /\ UNCHANGED << network_interface, platform, so_bindtodevice, bindAttempted,
                    sockTimeout, sent, recv, data, xml_url, fields, log, faults >>

\* do() refreshing the cache on every getAvailableApiList
DoReplyRecache ==
    /\ pc = "do_wait"
    /\ \E resp \in Responses :
         LET out == DoOutcome(req.param, resp)
         IN  /\ response' = resp
             /\ ret' = out.value
             /\ exc' = out.exc
             /\ available_apis' =
                  IF req.method = GetAvailableApiList /\ ~out.raised
                  THEN out.value ELSE available_apis
    /\ pc' = "ready"
    /\ UNCHANGED << op, network_interface, platform, so_bindtodevice, bindAttempted,
                    sockTimeout, sent, recv, data, xml_url, name, api_version,
                    services, camera_endpoint_url, req, log, faults >>

\* do(method, param): lines 123-166, the answer arrives
DoReply ==
    /\ pc = "do_wait"
    /\ \E resp \in Responses :
         LET out == DoOutcome(req.param, resp)
         IN  /\ response' = resp
             /\ ret' = out.value
             /\ exc' = out.exc
    /\ pc' = "ready"
    /\ UNCHANGED << op, network_interface, platform, so_bindtodevice, bindAttempted,
                    sockTimeout, sent, recv, data, xml_url, fields, req, log,
                    faults >>

\* do(method, param): requests.post or json.loads raises
DoFails ==
    /\ pc = "do_wait"
    /\ \E kind \in {"ConnectionError", "JSONDecodeError"} :
         exc' = Raise(kind, <<"POST">>)
    /\ pc' = "ready"
    /\ UNCHANGED << op, network_interface, platform, so_bindtodevice, bindAttempted,
                    sockTimeout, sent, recv, data, xml_url, fields, req, response,
                    ret, log, faults >>

\* lines 109-114
InfoOf(n, v, svc, apis) ==
    [t |-> "dict",
     v |-> [name |-> n, api_version |-> v, supported_services |-> DOMAIN svc,
            available_apis |-> apis]]

\* the info property
Info ==
    /\ pc = "ready"
    /\ op' = "info"
    /\ ret' = InfoOf(name, api_version, services, available_apis)
    /\ exc' = NoExc
    /\ req' = NoReq
    /\ response' = NoResponse
    /\ UNCHANGED << pc, network_interface, platform, so_bindtodevice, bindAttempted,
                    sockTimeout, sent, recv, data, xml_url, fields, log, faults >>

\* what requests.get(url, timeout=0.2) can end in
ProbeOutcomes ==
    { "status_200", "status_500", "refused", "unreachable", "connect_timeout",
      "read_timeout" }

\* the exception requests raises for an outcome
ProbeException(outcome) ==
    CASE outcome \in {"refused", "unreachable"} -> "ConnectionError"
      [] outcome = "connect_timeout" -> "ConnectTimeout"
      [] outcome = "read_timeout" -> "ReadTimeout"
      [] OTHER -> "None"

\* issubclass(kind, requests.exceptions.ConnectionError):
\* ConnectTimeout(ConnectionError, Timeout), ReadTimeout(Timeout)
IsConnectionError(kind) == kind \in {"ConnectionError", "ConnectTimeout"}

\* lines 98-102
ProbeResult(outcome) ==
    LET raised == ProbeException(outcome)
    IN  IF raised = "None" THEN [ret |-> PyTrue, exc |-> NoExc]
        ELSE IF IsConnectionError(raised) THEN [ret |-> PyFalse, exc |-> NoExc]
        ELSE [ret |-> PyNone, exc |-> Raise(raised, <<"GET">>)]

\* the connected property
Connected ==
    /\ pc = "ready"
    /\ op' = "connected"
    /\ \E outcome \in ProbeOutcomes :
         /\ response' = [probe |-> outcome]
         /\ ret' = ProbeResult(outcome).ret
         /\ exc' = ProbeResult(outcome).exc
    /\ req' = NoReq
    /\ UNCHANGED << pc, network_interface, platform, so_bindtodevice, bindAttempted,
                    sockTimeout, sent, recv, data, xml_url, fields, log, faults >>

UseNext == UserDo \/ DoReply \/ DoFails \/ Info \/ Connected

\* a camera as the constructor hands it over
UseInit ==
    /\ network_interface = NoIface
    /\ platform = "linux"
    /\ so_bindtodevice = BindToDeviceOpt
    /\ pc = "ready"
    /\ bindAttempted = FALSE
    /\ sockTimeout = RecvTimeout
    /\ sent = 1
    /\ recv = "datagram"
    /\ data = <<>>
    /\ xml_url = <<"u">>
    /\ name = "Cam1"
    /\ api_version = "1.0"
    /\ services \in { ServiceUrls(l) : l \in { x \in ServiceLists :
                                                 \E i \in 1..Len(x) : x[i].type = "camera" } }
    /\ camera_endpoint_url = EndpointOf(services)
    /\ available_apis \in { Normalize(r) : r \in { x \in Results : Len(x) > 0 } }
    /\ req = NoReq
    /\ response = NoResponse
    /\ ret = PyNone
    /\ exc = NoExc
    /\ op = "init"
    /\ log = IF PyIn(PyStr(StartRecMode), available_apis) = "true"
             THEN AllSteps ELSE SubSeq(AllSteps, 1, 4)
    /\ faults = {}

\* the constructed camera alone
SpecUse == UseInit /\ [][UseNext]_vars

Next == ConstructNext \/ UseNext

Spec == Init /\ [][Next]_vars

\* discovery keeps running: recvfrom returns with a datagram or times out
LiveDiscover == Init /\ [][DiscoverNext]_vars /\ WF_vars(DiscoverNext)

----------------------------------------------------------------------------
(* A camera handed over by the constructor, with the network interface, the  *)
(* platform and the URL fixed, is an initial state of SpecUse.               *)
HandedIsUseInit ==
    ( /\ pc = "ready"
      /\ network_interface = NoIface
      /\ platform = "linux"
      /\ xml_url = <<"u">>
      /\ name = "Cam1"
      /\ api_version = "1.0" ) => UseInit

----------------------------------------------------------------------------
(* The claims *)

DoReturned == op = "do" /\ pc = "ready" /\ response # NoResponse

\* C1: for a response without "error", do returns True for an empty result,
\* the element itself for a result of one element, and the whole sequence, in
\* order, for a longer result.
C1_ResultNormalized ==
    (DoReturned /\ "error" \notin DOMAIN response /\ "result" \in DOMAIN response) =>
        LET result == response.result
        IN  /\ exc = NoExc
            /\ Len(result) = 0 => ret = PyTrue
            /\ Len(result) = 1 => ret = result[1]
            /\ Len(result) > 1 => ret.t = "list" /\ ret.v = result

C1_Witness ==
    /\ DoReturned
    /\ "error" \notin DOMAIN response
    /\ "result" \in DOMAIN response
    /\ Len(response.result) = 2
    /\ response.result[1] # response.result[2]
    /\ ret = PyList(response.result)

KnownCodes == {1, 3, 12, 403, 500, 40403}

\* C2: for a response with "error", do returns nothing and raises the kind the
\* table gives for error[0]; the raised text holds error[last], for code 3 also
\* the caller's params, and for any other code also the code.
C2_ErrorRaised ==
    (DoReturned /\ "error" \in DOMAIN response) =>
        LET code == response.error[1].v
            message == response.error[Len(response.error)].v
        IN  /\ ret = PyNone
            /\ code = 1 => exc.kind = "NotAvailableError"
            /\ code = 3 => exc.kind = "IllegalArgumentError"
            /\ code = 12 => exc.kind = "InvalidActionError"
            /\ code = 403 => exc.kind = "ForbiddenError"
            /\ code = 500 => exc.kind = "OperationFailedError"
            /\ code = 40403 => exc.kind = "LongShootingError"
            /\ code \notin KnownCodes =>
                 exc.kind = "ValueError" /\ IsSubstring(Digits(code), exc.msg)
            /\ IsSubstring(message, exc.msg)
            /\ code = 3 => IsSubstring(Format(req.param), exc.msg)

C2_Witness ==
    /\ DoReturned
    /\ "error" \in DOMAIN response
    /\ response.error = << PyInt(3), PyStr(<<"bad">>), PyStr(<<"value">>) >>
    /\ req.param = PyList(<< PyInt(99999) >>)
    /\ exc.kind = "IllegalArgumentError"

IsPrefix(s, t) == Len(s) <= Len(t) /\ SubSeq(t, 1, Len(s)) = s

StepNo ==
    [ discover |-> 1, connect |-> 2, derive |-> 3, getAvailableApiList |-> 4,
      startRecMode |-> 5 ]

RecModeDecided == pc \in {"rec_wait", "ready"} \/ Len(log) = 5

C4_FailureAborts ==
    /\ faults # {} => pc = "failed"
    /\ pc = "failed" => /\ exc # NoExc
                        /\ Cardinality(faults) = 1
                        /\ \A f \in faults : Len(log) <= StepNo[f]
    /\ pc = "ready" =>
         /\ exc = NoExc
         /\ xml_url # NoUrl
         /\ name # "None"
         /\ "camera" \in DOMAIN services
         /\ camera_endpoint_url = services["camera"] \o <<"/camera">>
         /\ available_apis # PyNone
         /\ Len(log) >= 4

C4_Witness ==
    /\ pc = "failed"
    /\ faults = {"startRecMode"}
    /\ log = AllSteps
    /\ exc.kind = "OperationFailedError"

\* C5: connected returns true or false and never raises, whatever the GET
\* ends in.
C5_ConnectedNeverRaises ==
    op = "connected" => exc = NoExc /\ ret \in {PyTrue, PyFalse}

\* str.split(): the pieces between runs of whitespace
RECURSIVE WsTokens(_)
WsTokens(s) ==
    LET t == LStrip(s)
        WordLen == IF \E i \in 1..Len(t) : t[i] \in Whitespace
                   THEN (CHOOSE i \in 1..Len(t) :
                           /\ t[i] \in Whitespace
                           /\ \A j \in 1..(i - 1) : t[j] \notin Whitespace) - 1
                   ELSE Len(t)
    IN  IF t = <<>> THEN <<>>
        ELSE << SubSeq(t, 1, WordLen) >> \o WsTokens(SubSeq(t, WordLen + 1, Len(t)))

LocationLines(d) ==
    SelectSeq(Split(d, "\n"), LAMBDA item : item # <<>> /\ Head(item) = LOCATION)

\* C6: when discover returns, the datagram has a line that starts with
\* LOCATION and the URL returned is the second whitespace-delimited token of
\* that line.
C6_SecondTokenOfLocationLine ==
    (pc = "connect" /\ recv = "datagram") =>
        /\ LocationLines(data) # <<>>
        /\ Len(WsTokens(LocationLines(data)[1])) >= 2
        /\ xml_url = WsTokens(LocationLines(data)[1])[2]

\* C7: a receive timeout after the M-SEARCH was sent makes discover raise
\* ConnectionError, and no URL is returned.
C7_TimeoutRaisesConnectionError ==
    recv = "timeout" =>
        /\ sent = 1
        /\ pc = "failed"
        /\ exc.kind = "ConnectionError"
        /\ xml_url = NoUrl

C7_Witness ==
    /\ recv = "timeout"
    /\ data = <<>>
    /\ exc.kind = "ConnectionError"

\* C8: with an interface given on a platform without SO_BINDTODEVICE the
\* binding is skipped and discover does not raise because of it; with no
\* interface given no binding is attempted.
C8_BindingBestEffort ==
    /\ (network_interface # NoIface /\ platform = "other") =>
         /\ ~bindAttempted
         /\ ~(exc.kind = "OSError" /\ exc.msg = <<"setsockopt">>)
    /\ network_interface = NoIface => ~bindAttempted

\* C9: after construction no call of do, info or connected changes name,
\* api_version, services, the endpoint URL or the cached API list, and the
\* endpoint URL is services["camera"] + "/camera".
C9_FieldsImmutable ==
    /\ [][fields' = fields]_vars
    /\ []( /\ "camera" \in DOMAIN services
           /\ camera_endpoint_url = services["camera"] \o <<"/camera">> )

C9_Witness ==
    /\ op = "do"
    /\ pc = "ready"
    /\ req.method = GetAvailableApiList
    /\ response # NoResponse
    /\ "result" \in DOMAIN response
    /\ ret # available_apis
    /\ ret.t = "list"

\* C10: every call of discover ends, by returning a URL or by raising; it
\* sends one M-SEARCH, and receives nothing after the datagram that gave the
\* URL.
C10_DiscoverEnds ==
    /\ [](sent <= 1)
    /\ [][pc = "connect" => (recv' = recv /\ xml_url' = xml_url)]_vars
    /\ <>(pc \in {"connect", "failed"})

====
